---- MODULE Spec2Model ----
(***************************************************************************)
(* HSDC steganography engine: the permuted (PRNG LSB) mode, the earlier    *)
(* buffer-based embed with its own SeededPRNG, and the stream-based embed. *)
(*                                                                         *)
(* 32-bit unsigned values (PRNG state, CRC, the frame's length field) are  *)
(* kept as four bytes, most significant first, exactly as readUInt32BE /   *)
(* writeUInt32BE lay them out; all arithmetic on them is done modulo 2^32. *)
(* Buffers are sequences of bytes; the source's offset o is index o + 1.   *)
(***************************************************************************)
EXTENDS Integers, Sequences, FiniteSets, TLC

(* ------------------------------------------------------------------ *)
(* Bounds of the model                                                 *)
(* ------------------------------------------------------------------ *)
MaxDim == 10
MaxPayloadLen == 2
NumCarriers == 2
MaxEmbeds == 2
MaxChunks == 3
MaxCrcLen == 3       \* longest byte sequence handed to crc32 on its own
MaxShuffle == 8      \* largest length handed to shuffleIndices on its own
MaxRows == 2         \* rows the metadata table can hold

(* ------------------------------------------------------------------ *)
(* Program constants                                                   *)
(* ------------------------------------------------------------------ *)
HSDC_MAGIC == <<72, 83, 68, 67>>
LENGTH_BYTES == 4
CRC_BYTES == 4
PREFIX_SIZE == Len(HSDC_MAGIC) + LENGTH_BYTES
HEADER_SIZE == PREFIX_SIZE + CRC_BYTES

(* ------------------------------------------------------------------ *)
(* Byte and 32-bit word helpers                                        *)
(* ------------------------------------------------------------------ *)
Pow2(k) == CASE k = 0 -> 1 [] k = 1 -> 2 [] k = 2 -> 4 [] k = 3 -> 8
             [] k = 4 -> 16 [] k = 5 -> 32 [] k = 6 -> 64 [] k = 7 -> 128

BitOf(byte, k) == (byte \div Pow2(k)) % 2

XorBit(a, b) == IF a = b THEN 0 ELSE 1

XorByte(a, b) ==
  XorBit(BitOf(a, 0), BitOf(b, 0)) + 2 * XorBit(BitOf(a, 1), BitOf(b, 1))
  + 4 * XorBit(BitOf(a, 2), BitOf(b, 2)) + 8 * XorBit(BitOf(a, 3), BitOf(b, 3))
  + 16 * XorBit(BitOf(a, 4), BitOf(b, 4)) + 32 * XorBit(BitOf(a, 5), BitOf(b, 5))
  + 64 * XorBit(BitOf(a, 6), BitOf(b, 6)) + 128 * XorBit(BitOf(a, 7), BitOf(b, 7))

XorWord(x, y) == [i \in 1..4 |-> XorByte(x[i], y[i])]

\* x >>> 1
Shr1(x) == <<x[1] \div 2,
             (x[2] \div 2) + 128 * (x[1] % 2),
             (x[3] \div 2) + 128 * (x[2] % 2),
             (x[4] \div 2) + 128 * (x[3] % 2)>>

\* x >>> 8
Shr8(x) == <<0, x[1], x[2], x[3]>>

\* writeUInt32BE of a value below 2^24 (every length the model builds)
WriteUInt32BE(n) == <<0, (n \div 65536) % 256, (n \div 256) % 256, n % 256>>

\* value of a word, for the words whose top byte is 0
WordLow(x) == x[2] * 65536 + x[3] * 256 + x[4]

\* unsigned comparisons of a word against a small natural
WordIsZero(x) == x = <<0, 0, 0, 0>>
WordGreater(x, n) == x[1] > 0 \/ WordLow(x) > n

\* unsigned word modulo a small natural m
WordMod(x, m) == ((((((x[1] % m) * 256 + x[2]) % m) * 256 + x[3]) % m) * 256 + x[4]) % m

(* ------------------------------------------------------------------ *)
(* SeededPRNG                                                          *)
(* ------------------------------------------------------------------ *)
\* md5(seed).readUInt32BE(0) for the seed strings of the model
SeedState(s) ==
  CASE s = "k1" -> <<182, 55, 177, 122>>
    [] s = "k128870" -> <<94, 40, 35, 200>>
    [] s = "k149701" -> <<132, 254, 120, 185>>

LcgMul == 1664525
LcgInc == 1013904223

\* variant: the result is masked to 31 bits
next_mask31(state) ==
  LET a0 == state[4] * LcgMul + LcgInc
      a1 == state[3] * LcgMul + (a0 \div 256)
      a2 == state[2] * LcgMul + (a1 \div 256)
      a3 == state[1] * LcgMul + (a2 \div 256)
  IN  <<a3 % 128, a2 % 256, a1 % 256, a0 % 256>>

\* (Math.imul(state, 1664525) + 1013904223) >>> 0
next(state) ==
  LET a0 == state[4] * LcgMul + LcgInc
      a1 == state[3] * LcgMul + (a0 \div 256)
      a2 == state[2] * LcgMul + (a1 \div 256)
      a3 == state[1] * LcgMul + (a2 \div 256)
  IN  <<a3 % 256, a2 % 256, a1 % 256, a0 % 256>>

\* variant: indices[j] is assigned from the already overwritten indices[i]
Swap_noTemp(indices, a, b) == [indices EXCEPT ![a] = indices[b]]

Swap(indices, a, b) == [indices EXCEPT ![a] = indices[b], ![b] = indices[a]]

\* the loop of shuffleIndices from i down to 1; indices holds 0-based values
RECURSIVE ShuffleFrom(_, _, _)
ShuffleFrom(indices, state, i) ==
  IF i > 0
  THEN LET st == next(state)
           j  == WordMod(st, i + 1)
       IN  ShuffleFrom(Swap(indices, i + 1, j + 1), st, i - 1)
  ELSE indices

shuffleIndices(state, length) ==
  ShuffleFrom([k \in 1..length |-> k - 1], state, length - 1)

(* ------------------------------------------------------------------ *)
(* CRC-32                                                              *)
(* ------------------------------------------------------------------ *)
CrcPoly == <<237, 184, 131, 32>>

RECURSIVE TableEntry(_, _)
TableEntry(c, j) ==
  IF j = 8 THEN c
  ELSE TableEntry(IF c[4] % 2 = 1 THEN XorWord(CrcPoly, Shr1(c)) ELSE Shr1(c), j + 1)

\* the 256 entries getCRC32Table fills in; entry i is at index i + 1
BuiltCRC32Table == [i \in 1..256 |-> TableEntry(<<0, 0, 0, i - 1>>, 0)]

\* variant: the table is handed out before it has been filled
getCRC32Table_unfilled(table) ==
  IF table # <<>> THEN table ELSE [i \in 1..256 |-> <<0, 0, 0, 0>>]

\* the table getCRC32Table returns: the cached one when present, else a
\* newly filled one
getCRC32Table(table) == IF table # <<>> THEN table ELSE BuiltCRC32Table

\* the module-level crc32Table after a call of getCRC32Table
CachedCRC32Table(table) == IF table # <<>> THEN table ELSE BuiltCRC32Table

RECURSIVE CrcLoop(_, _, _, _)
CrcLoop(crc, table, data, i) ==
  IF i > Len(data) THEN crc
  ELSE CrcLoop(XorWord(Shr8(crc), table[XorByte(crc[4], data[i]) + 1]), table, data, i + 1)

\* variant: the final XOR with 0xffffffff is missing
crc32_noFinalXor(data, table) ==
  CrcLoop(<<255, 255, 255, 255>>, getCRC32Table(table), data, 1)

crc32(data, table) ==
  XorWord(CrcLoop(<<255, 255, 255, 255>>, getCRC32Table(table), data, 1),
          <<255, 255, 255, 255>>)

(* ------------------------------------------------------------------ *)
(* Capacity                                                            *)
(* ------------------------------------------------------------------ *)
Min(a, b) == IF a < b THEN a ELSE b
Max(a, b) == IF a > b THEN a ELSE b

\* variant: the alpha channel is counted as usable
calculateCapacity_allChannels(w, h, ch) ==
  LET totalBits == w * h * ch * 2
      totalBytes == totalBits \div 8
  IN  Max(0, totalBytes - HEADER_SIZE)

calculateCapacity(w, h, ch) ==
  LET usableChannels == Min(ch, 3)
      totalBits == w * h * usableChannels * 2
      totalBytes == totalBits \div 8
  IN  Max(0, totalBytes - HEADER_SIZE)

(* ------------------------------------------------------------------ *)
(* Inputs of the model                                                 *)
(* ------------------------------------------------------------------ *)
\* <<width, height, channels>>: an image too small for a header, one that
\* takes a header but no frame, an RGBA image that holds a 1-byte payload,
\* an RGB image that holds 15 bytes
Geometries == {<<2, 2, 3>>, <<5, 3, 3>>, <<6, 3, 4>>, <<6, 6, 3>>}
ChainGeometry == <<6, 6, 3>>

CarrierByte(i, k) == (i * (36 + k) + 11 * k) % 256
Carrier(n, k) == [i \in 1..n |-> CarrierByte(i - 1, k)]

PayloadBytes == {65, 165}
Payloads == UNION {[1..n -> PayloadBytes] : n \in 0..MaxPayloadLen}
ChainPayloads == {<<65>>, <<165>>, <<65, 165>>}

Seeds == {"k1", "k128870"}
ChainSeeds == {"k128870", "k149701"}

\* frame bits outside the payload that the tampering caller may flip:
\* first magic bit, top and bottom bit of the length field
HeaderTamperBits == {0, 32, 63}

(* ------------------------------------------------------------------ *)
(* State                                                               *)
(* ------------------------------------------------------------------ *)
VARIABLES
  crc32Table,      \* module-level cache; <<>> is null
  pc,              \* position of the one call in progress
  width, height, channels,
  carrier,         \* the caller's original pixel buffer
  stego,           \* the caller's copy of the last embed output; <<>> if none
  imageData, payload, seed,     \* arguments of the current call
  capacity, frame, output, pixelOrder, p, c,
  frameByteIdx, frameBitIdx, pixelsModified, modified,      \* embed locals
  extractedBytes, byteIdx, bitIdx, currentByte,
  extractedLength, isHeaderParsed, targetSize,              \* extract locals
  result, error,   \* what the call returned / threw
  callerBefore,    \* history: the argument buffer as it was at call time
  embedded,        \* history: the last successful embed
  flipped,         \* history: frame bit flipped in stego since then, or -1
  embeds,          \* history: number of embed calls made
  first,           \* history: the first completed embed call
  stegoTransform,  \* the StegoTransform of the streaming embed in progress
  pipeline,        \* the pipe chain of the streaming embed: raw pixels and stages
  promise,         \* the promise the streaming embed returned
  prng,            \* the SeededPRNG object and the shuffleIndices call on it
  metadata,        \* the rows of the metadata table, by id
  recovery,        \* the recoverFile call in progress or last returned
  retired          \* history: ids of rows an update of hideFile, revokeFile or
                   \* cryptoShredFile has been applied to

vars == <<crc32Table, pc, width, height, channels, carrier, stego,
          imageData, payload, seed, capacity, frame, output, pixelOrder, p, c,
          frameByteIdx, frameBitIdx, pixelsModified, modified,
          extractedBytes, byteIdx, bitIdx, currentByte,
          extractedLength, isHeaderParsed, targetSize,
          result, error, callerBefore, embedded, flipped, embeds, first,
          stegoTransform, pipeline, promise, prng, metadata, recovery, retired>>

embedLocals == <<capacity, frame, output, frameByteIdx, frameBitIdx,
                 pixelsModified, modified>>
extractLocals == <<extractedBytes, byteIdx, bitIdx, currentByte,
                   extractedLength, isHeaderParsed, targetSize>>
history == <<embedded, flipped, embeds, first>>
session == <<width, height, channels, carrier>>
streaming == <<stegoTransform, pipeline, promise>>

NoResult == [kind |-> "none"]
NoError == [message |-> "", args |-> <<>>]
NoEmbed == [ok |-> FALSE]
NoTransform == [payload |-> <<>>, channels |-> 0, byteIdx |-> 0, bitIdx |-> 0]
NoPipeline == [pending |-> <<>>, chunks |-> <<>>, pushed |-> <<>>,
               layout |-> {}, failed |-> ""]
NoPrng == [state |-> <<0, 0, 0, 0>>, constructed |-> <<0, 0, 0, 0>>,
           before |-> <<0, 0, 0, 0>>, returned |-> <<0, 0, 0, 0>>, calls |-> 0,
           length |-> 0, indices |-> <<>>, i |-> 0, j |-> 0]
NoRow == [owner |-> "", status |-> "", encrypted_key |-> ""]
NoRecovery == [stage |-> "none", user |-> "", metadataId |-> 0,
               meta |-> NoRow, afterRetire |-> FALSE,
               extracted |-> FALSE, decrypted |-> FALSE,
               success |-> FALSE, error |-> ""]

Returned == {"idle", "embedDone", "embedFailed", "extractDone",
             "extractFailed", "capacityDone"}

InitWith(w, h, ch, img) ==
  /\ crc32Table = <<>>
  /\ pc = "idle"
  /\ width = w /\ height = h /\ channels = ch
  /\ carrier = img
  /\ stego = <<>>
  /\ imageData = <<>> /\ payload = <<>> /\ seed = ""
  /\ capacity = 0 /\ frame = <<>> /\ output = <<>> /\ pixelOrder = <<>>
  /\ p = 0 /\ c = 0
  /\ frameByteIdx = 0 /\ frameBitIdx = 0
  /\ pixelsModified = 0 /\ modified = FALSE
  /\ extractedBytes = <<>> /\ byteIdx = 0 /\ bitIdx = 0 /\ currentByte = 0
  /\ extractedLength = <<0, 0, 0, 0>> /\ isHeaderParsed = FALSE
  /\ targetSize = 0
  /\ result = NoResult /\ error = NoError
  /\ callerBefore = <<>>
  /\ embedded = NoEmbed /\ flipped = -1 /\ embeds = 0 /\ first = NoEmbed
  /\ stegoTransform = NoTransform /\ pipeline = NoPipeline /\ promise = "none"
  /\ prng = NoPrng
  /\ metadata = [id \in 1..MaxRows |-> NoRow]
  /\ recovery = NoRecovery /\ retired = {}

Init ==
  \E g \in Geometries, k \in 1..NumCarriers :
      InitWith(g[1], g[2], g[3], Carrier(g[1] * g[2] * g[3], k))

(* ------------------------------------------------------------------ *)
(* embed                                                               *)
(* ------------------------------------------------------------------ *)
\* variant: the checksum is taken over magic, length and payload
BuildFrame_crcOverHeader(pl, table) ==
  HSDC_MAGIC \o WriteUInt32BE(Len(pl)) \o pl
    \o crc32(HSDC_MAGIC \o WriteUInt32BE(Len(pl)) \o pl, table)

\* Buffer.concat([HSDC_MAGIC, lengthBuf, payload, crcBuf])
BuildFrame(pl, table) ==
  HSDC_MAGIC \o WriteUInt32BE(Len(pl)) \o pl \o crc32(pl, table)

\* (frame[frameByteIdx] >> (7 - frameBitIdx)) & 1; an index past the end
\* reads undefined, which >> turns into 0
FrameBit(fr, fByte, fBit) ==
  IF fByte < Len(fr) THEN BitOf(fr[fByte + 1], 7 - fBit) ELSE 0

\* (byte & 0xfe) | bit0
SetBit0(byte, bit0) == (byte - (byte % 2)) + bit0
\* variant: the mask 0xf9 also clears bit 2
SetBit1_maskF9(byte, bit1) ==
  (byte - 2 * BitOf(byte, 1) - 4 * BitOf(byte, 2)) + 2 * bit1

\* (byte & 0xfd) | (bit1 << 1)
SetBit1(byte, bit1) == (byte - 2 * BitOf(byte, 1)) + 2 * bit1

\* the error embed throws when the payload is larger than the capacity
CapacityError(pl, cap) == [message |-> "Payload exceeds capacity", args |-> <<>>]

\* variant: the payload is compared with the bytes of the whole image
ExceedsCapacity_totalBytes(pl, cap) == Len(pl) > cap + HEADER_SIZE

\* the guard of embed's capacity check
ExceedsCapacity(pl, cap) == Len(pl) > cap

\* variant: the loops run on after the last frame byte
FrameRemains_always(fByte, fr) == TRUE

\* frameByteIdx < frame.length, the second condition of both loops
FrameRemains(fByte, fr) == fByte < Len(fr)

\* variant: output is the argument itself (no Buffer.from)
CallerBufferAfter_aliased(img, out) == out

\* the argument buffer after a store to output: output is the copy made by
\* Buffer.from(imageData), so the store does not reach the argument
CallerBufferAfter(img, out) == img

\* variant: the second bit of each channel is not written
EmbedChannel_oneBit(out, fr, fByte, fBit, mod, byteOffset) ==
  LET byteA == SetBit0(out[byteOffset + 1], FrameBit(fr, fByte, fBit))
      fByteB == IF fBit + 1 = 8 THEN fByte + 1 ELSE fByte
      fBitB  == IF fBit + 1 = 8 THEN 0 ELSE fBit + 1
  IN  [output |-> [out EXCEPT ![byteOffset + 1] = byteA],
       frameByteIdx |-> fByteB, frameBitIdx |-> fBitB,
       modified |-> TRUE, broke |-> FALSE]

\* one iteration of the channel loop at byteOffset: the new cursor, the
\* output buffer and whether the iteration left through the inner break
EmbedChannel(out, fr, fByte, fBit, mod, byteOffset) ==
  LET byte0 == out[byteOffset + 1]
      byteA == IF fBit < 8 THEN SetBit0(byte0, FrameBit(fr, fByte, fBit)) ELSE byte0
      fBitA == IF fBit < 8 THEN fBit + 1 ELSE fBit
      modA  == IF fBit < 8 THEN TRUE ELSE mod
      fByteB == IF fBitA = 8 THEN fByte + 1 ELSE fByte
      fBitB  == IF fBitA = 8 THEN 0 ELSE fBitA
      broke  == fBitA = 8 /\ fByteB >= Len(fr)
      byteC == IF fBitB < 8 THEN SetBit1(byteA, FrameBit(fr, fByteB, fBitB)) ELSE byteA
      fBitC == IF fBitB < 8 THEN fBitB + 1 ELSE fBitB
      fByteD == IF fBitC = 8 THEN fByteB + 1 ELSE fByteB
      fBitD  == IF fBitC = 8 THEN 0 ELSE fBitC
  IN  IF broke
      THEN [output |-> out, frameByteIdx |-> fByteB, frameBitIdx |-> fBitB,
            modified |-> modA, broke |-> TRUE]
      ELSE [output |-> [out EXCEPT ![byteOffset + 1] = byteC],
            frameByteIdx |-> fByteD, frameBitIdx |-> fBitD,
            modified |-> modA, broke |-> FALSE]

embed_begin(img, pl, sd) ==
  /\ pc \in Returned
  /\ pc' = IF ExceedsCapacity(pl, calculateCapacity(width, height, channels))
           THEN "embedFailed"
           ELSE IF 0 < width * height THEN "embed" ELSE "embedEnd"
  /\ imageData' = img /\ callerBefore' = img
  /\ payload' = pl /\ seed' = sd
  /\ capacity' = calculateCapacity(width, height, channels)
  /\ result' = NoResult
  /\ embeds' = embeds + 1
  /\ p' = 0 /\ c' = 0
  /\ frameByteIdx' = 0 /\ frameBitIdx' = 0
  /\ pixelsModified' = 0 /\ modified' = FALSE
  /\ extractedBytes' = <<>> /\ byteIdx' = 0 /\ bitIdx' = 0 /\ currentByte' = 0
  /\ extractedLength' = <<0, 0, 0, 0>> /\ isHeaderParsed' = FALSE
  /\ targetSize' = 0
  /\ IF ExceedsCapacity(pl, calculateCapacity(width, height, channels))
     THEN /\ error' = CapacityError(pl, calculateCapacity(width, height, channels))
          /\ frame' = <<>> /\ output' = <<>> /\ pixelOrder' = <<>>
          /\ UNCHANGED crc32Table
     ELSE /\ error' = NoError
          /\ frame' = BuildFrame(pl, crc32Table)
          /\ crc32Table' = CachedCRC32Table(crc32Table)
          /\ output' = img
          /\ pixelOrder' = shuffleIndices(SeedState(sd), width * height)
  /\ UNCHANGED <<session, stego, embedded, flipped, first>>
  /\ UNCHANGED <<streaming, prng, metadata, recovery, retired>>

\* one iteration of the channel loop, with the loop bookkeeping that follows it
embed_loop ==
  /\ pc = "embed"
  /\ LET usableChannels == Min(channels, 3)
         byteOffset == pixelOrder[p + 1] * channels + c
         r == EmbedChannel(output, frame, frameByteIdx, frameBitIdx, modified, byteOffset)
         pixelEnds == r.broke \/ ~(c + 1 < usableChannels /\ FrameRemains(r.frameByteIdx, frame))
         pMod == IF r.modified THEN pixelsModified + 1 ELSE pixelsModified
     IN  /\ output' = r.output
         /\ imageData' = CallerBufferAfter(imageData, r.output)
         /\ frameByteIdx' = r.frameByteIdx
         /\ frameBitIdx' = r.frameBitIdx
         /\ IF pixelEnds
            THEN /\ pixelsModified' = pMod
                 /\ modified' = FALSE
                 /\ p' = p + 1 /\ c' = 0
                 /\ pc' = IF p + 1 < Len(pixelOrder) /\ FrameRemains(r.frameByteIdx, frame)
                          THEN "embed" ELSE "embedEnd"
            ELSE /\ pixelsModified' = pixelsModified
                 /\ modified' = r.modified
                 /\ p' = p /\ c' = c + 1
                 /\ pc' = "embed"
  /\ UNCHANGED <<crc32Table, session, stego, payload, seed, capacity,
                 frame, pixelOrder, extractLocals, result, error, callerBefore,
                 history>>
  /\ UNCHANGED <<streaming, prng, metadata, recovery, retired>>

embed_return ==
  /\ pc = "embedEnd"
  /\ pc' = "embedDone"
  /\ result' = [kind |-> "embed", stegoImageBuffer |-> output,
                capacityUsed |-> Len(payload), capacityTotal |-> capacity,
                pixelsModified |-> pixelsModified]
  /\ stego' = output
  /\ embedded' = [ok |-> TRUE, input |-> imageData, payload |-> payload,
                  seed |-> seed, output |-> output]
  /\ flipped' = -1
  /\ first' = IF first.ok THEN first
              ELSE [ok |-> TRUE, input |-> imageData, payload |-> payload,
                    seed |-> seed,
                    result |-> [kind |-> "embed", stegoImageBuffer |-> output,
                                capacityUsed |-> Len(payload),
                                capacityTotal |-> capacity,
                                pixelsModified |-> pixelsModified]]
  /\ UNCHANGED <<crc32Table, session, imageData, payload, seed, capacity, frame,
                 output, pixelOrder, p, c, frameByteIdx, frameBitIdx,
                 pixelsModified, modified, extractLocals, error, callerBefore,
                 embeds>>
  /\ UNCHANGED <<streaming, prng, metadata, recovery, retired>>

(* ------------------------------------------------------------------ *)
(* extract                                                             *)
(* ------------------------------------------------------------------ *)
MagicMismatch == "No HSDC data found in this image (magic header mismatch)"
LengthOutOfRange == "Invalid payload length detected"
IncompleteFrame == "Image does not contain a complete payload"

\* variant: the length is validated before the magic
ParseHeader_lengthFirst(bytes, maxBytes) ==
  LET magic == SubSeq(bytes, 1, Len(HSDC_MAGIC))
      length == SubSeq(bytes, Len(HSDC_MAGIC) + 1, Len(HSDC_MAGIC) + 4)
  IN  IF WordIsZero(length) \/ WordGreater(length, maxBytes - HEADER_SIZE)
      THEN LengthOutOfRange
      ELSE IF magic # HSDC_MAGIC THEN MagicMismatch ELSE ""

\* the header validation made when byte 8 has been stored: the message of
\* the error thrown, or "" when the header is accepted
ParseHeader(bytes, maxBytes) ==
  LET magic == SubSeq(bytes, 1, Len(HSDC_MAGIC))
      length == SubSeq(bytes, Len(HSDC_MAGIC) + 1, Len(HSDC_MAGIC) + 4)
  IN  IF magic # HSDC_MAGIC THEN MagicMismatch
      ELSE IF WordIsZero(length) \/ WordGreater(length, maxBytes - HEADER_SIZE)
           THEN LengthOutOfRange
           ELSE ""

\* extractedBytes[byteIdx++] = value; a store outside the buffer is dropped
StoreByte(bytes, idx, value) ==
  IF idx < Len(bytes) THEN [bytes EXCEPT ![idx + 1] = value % 256] ELSE bytes

\* one iteration of the bit loop, up to (not including) its break test
ExtractBit(st, byte, bit) ==
  LET cur == st.currentByte * 2 + BitOf(byte, bit)
      full == st.bitIdx + 1 = 8
      bytes == IF full THEN StoreByte(st.extractedBytes, st.byteIdx, cur)
               ELSE st.extractedBytes
      bIdx == IF full THEN st.byteIdx + 1 ELSE st.byteIdx
      atHeader == full /\ ~st.isHeaderParsed /\ bIdx = PREFIX_SIZE
      thrown == IF atHeader THEN ParseHeader(bytes, Len(bytes)) ELSE ""
      length == SubSeq(bytes, Len(HSDC_MAGIC) + 1, Len(HSDC_MAGIC) + 4)
  IN  [extractedBytes |-> bytes,
       byteIdx |-> bIdx,
       bitIdx |-> IF full THEN 0 ELSE st.bitIdx + 1,
       currentByte |-> IF full THEN 0 ELSE cur,
       extractedLength |-> IF atHeader /\ thrown # MagicMismatch
                           THEN length ELSE st.extractedLength,
       isHeaderParsed |-> st.isHeaderParsed \/ (atHeader /\ thrown = ""),
       targetSize |-> IF atHeader /\ thrown = ""
                      THEN PREFIX_SIZE + WordLow(length) + CRC_BYTES
                      ELSE st.targetSize,
       thrown |-> thrown]

\* variant: the traversal never stops at the target
FrameComplete_never(st) == FALSE

\* isHeaderParsed && byteIdx === targetSize
FrameComplete(st) == st.isHeaderParsed /\ st.byteIdx = st.targetSize

\* variant: bit 1 of the channel byte is read before bit 0
ExtractChannel_highBitFirst(st, byte) ==
  LET s1 == ExtractBit(st, byte, 1)
  IN  IF s1.thrown # "" \/ FrameComplete(s1) THEN s1 ELSE ExtractBit(s1, byte, 0)

\* the two iterations of the bit loop for one channel byte
ExtractChannel(st, byte) ==
  LET s1 == ExtractBit(st, byte, 0)
  IN  IF s1.thrown # "" \/ FrameComplete(s1) THEN s1 ELSE ExtractBit(s1, byte, 1)

\* variant: the checksum comparison is dropped
IntegrityValid_always(storedCRC, computedCRC) == TRUE

\* storedCRC === computedCRC
IntegrityValid(storedCRC, computedCRC) == storedCRC = computedCRC

\* variant: the payload is sliced after the whole 12-byte overhead
ExtractResult_offset12(bytes, length, table) ==
  LET payloadStart == HEADER_SIZE
      pl == SubSeq(bytes, payloadStart + 1, Min(payloadStart + length, Len(bytes)))
      storedCRC == [i \in 1..4 |->
                      IF payloadStart + length + i <= Len(bytes)
                      THEN bytes[payloadStart + length + i] ELSE 0]
  IN  [kind |-> "extract", extractedData |-> pl, dataLength |-> length,
       integrityValid |-> IntegrityValid(storedCRC, crc32(pl, table))]

\* variant: the stored checksum is read without the payload start
ExtractResult_crcAtLength(bytes, length, table) ==
  LET payloadStart == PREFIX_SIZE
      pl == SubSeq(bytes, payloadStart + 1, payloadStart + length)
      storedCRC == SubSeq(bytes, length + 1, length + 4)
  IN  [kind |-> "extract", extractedData |-> pl, dataLength |-> length,
       integrityValid |-> IntegrityValid(storedCRC, crc32(pl, table))]

\* the result built after the traversal
ExtractResult(bytes, length, table) ==
  LET payloadStart == PREFIX_SIZE
      pl == SubSeq(bytes, payloadStart + 1, payloadStart + length)
      storedCRC == SubSeq(bytes, payloadStart + length + 1, payloadStart + length + 4)
  IN  [kind |-> "extract", extractedData |-> pl, dataLength |-> length,
       integrityValid |-> IntegrityValid(storedCRC, crc32(pl, table))]

extract_begin(img, sd) ==
  /\ pc \in Returned
  /\ pc' = IF 0 < width * height THEN "extract" ELSE "extractEnd"
  /\ imageData' = img /\ callerBefore' = img
  /\ payload' = <<>> /\ seed' = sd
  /\ pixelOrder' = shuffleIndices(SeedState(sd), width * height)
  /\ extractedBytes' =
       [i \in 1..(calculateCapacity(width, height, channels) + HEADER_SIZE) |-> 0]
  /\ byteIdx' = 0 /\ bitIdx' = 0 /\ currentByte' = 0
  /\ extractedLength' = <<0, 0, 0, 0>> /\ isHeaderParsed' = FALSE
  /\ targetSize' = PREFIX_SIZE
  /\ p' = 0 /\ c' = 0
  /\ capacity' = 0 /\ frame' = <<>> /\ output' = <<>>
  /\ frameByteIdx' = 0 /\ frameBitIdx' = 0
  /\ pixelsModified' = 0 /\ modified' = FALSE
  /\ result' = NoResult /\ error' = NoError
  /\ UNCHANGED <<crc32Table, session, stego, history>>
  /\ UNCHANGED <<streaming, prng, metadata, recovery, retired>>

\* one iteration of the channel loop, with the loop bookkeeping that follows it
extract_loop ==
  /\ pc = "extract"
  /\ LET usableChannels == Min(channels, 3)
         baseOffset == pixelOrder[p + 1] * channels
         st == [extractedBytes |-> extractedBytes, byteIdx |-> byteIdx,
                bitIdx |-> bitIdx, currentByte |-> currentByte,
                extractedLength |-> extractedLength,
                isHeaderParsed |-> isHeaderParsed, targetSize |-> targetSize,
                thrown |-> ""]
         r == ExtractChannel(st, imageData[baseOffset + c + 1])
     IN  /\ extractedBytes' = r.extractedBytes
         /\ byteIdx' = r.byteIdx
         /\ bitIdx' = r.bitIdx
         /\ currentByte' = r.currentByte
         /\ extractedLength' = r.extractedLength
         /\ isHeaderParsed' = r.isHeaderParsed
         /\ targetSize' = r.targetSize
         /\ IF r.thrown # ""
            THEN /\ pc' = "extractFailed"
                 /\ error' = [message |-> r.thrown, args |-> <<>>]
                 /\ UNCHANGED <<p, c>>
            ELSE /\ error' = error
                 /\ IF FrameComplete(r)
                    THEN pc' = "extractEnd" /\ UNCHANGED <<p, c>>
                    ELSE IF c + 1 < usableChannels
                         THEN pc' = "extract" /\ p' = p /\ c' = c + 1
                         ELSE /\ p' = p + 1 /\ c' = 0
                              /\ pc' = IF p + 1 < Len(pixelOrder)
                                       THEN "extract" ELSE "extractEnd"
  /\ UNCHANGED <<crc32Table, session, stego, imageData, payload, seed, pixelOrder,
                 embedLocals, result, callerBefore, history>>
  /\ UNCHANGED <<streaming, prng, metadata, recovery, retired>>

\* variant: the comparison is inverted
Incomplete_inverted(bIdx, target) == bIdx > target

\* byteIdx < targetSize after the traversal
Incomplete(bIdx, target) == bIdx < target

extract_return ==
  /\ pc = "extractEnd"
  /\ IF Incomplete(byteIdx, targetSize)
     THEN /\ pc' = "extractFailed"
          /\ error' = [message |-> IncompleteFrame, args |-> <<>>]
          /\ UNCHANGED <<result, crc32Table>>
     ELSE /\ pc' = "extractDone"
          /\ result' = ExtractResult(extractedBytes, WordLow(extractedLength), crc32Table)
          /\ crc32Table' = CachedCRC32Table(crc32Table)
          /\ error' = error
  /\ UNCHANGED <<session, stego, imageData, payload, seed, pixelOrder, p, c,
                 embedLocals, extractLocals, callerBefore, history>>
  /\ UNCHANGED <<streaming, prng, metadata, recovery, retired>>

(* ------------------------------------------------------------------ *)
(* The caller                                                          *)
(* ------------------------------------------------------------------ *)
\* offset and bit position of the pixel bit that carries frame bit k
CarrierOffset(order, ch, k) ==
  order[((k \div 2) \div Min(ch, 3)) + 1] * ch + ((k \div 2) % Min(ch, 3))

FlipBit(buf, offset, bit) ==
  [buf EXCEPT ![offset + 1] =
     IF BitOf(buf[offset + 1], bit) = 1 THEN buf[offset + 1] - Pow2(bit)
     ELSE buf[offset + 1] + Pow2(bit)]

PayloadBits(pl) == {k \in 0..(8 * (PREFIX_SIZE + Len(pl)) - 1) : k >= 8 * PREFIX_SIZE}

\* someone flips, in the stego buffer just returned, the bit carrying frame bit k
tamper(k) ==
  /\ pc = "embedDone"
  /\ flipped = -1
  /\ frameByteIdx = Len(frame)
  /\ stego' = FlipBit(stego, CarrierOffset(pixelOrder, channels, k), k % 2)
  /\ flipped' = k
  /\ UNCHANGED <<crc32Table, pc, session, imageData, payload, seed, pixelOrder,
                 p, c, embedLocals, extractLocals, result, error, callerBefore,
                 embedded, embeds, first>>
  /\ UNCHANGED <<streaming, prng, metadata, recovery, retired>>

\* the exported capacity query
capacity_call(w, h, ch) ==
  /\ pc \in Returned
  /\ pc' = "capacityDone"
  /\ width' = w /\ height' = h /\ channels' = ch
  /\ result' = [kind |-> "capacity", value |-> calculateCapacity(w, h, ch)]
  /\ UNCHANGED <<crc32Table, carrier, stego, imageData, payload, seed, pixelOrder,
                 p, c, embedLocals, extractLocals, error, callerBefore, history>>
  /\ UNCHANGED <<streaming, prng, metadata, recovery, retired>>

\* the buffer the caller currently holds
Held == IF embedded.ok THEN stego ELSE carrier

EmbedCarrier ==
  /\ embeds = 0
  /\ \E pl \in Payloads, sd \in Seeds : embed_begin(carrier, pl, sd)

ExtractHeld ==
  /\ pc \in Returned
  /\ \E sd \in Seeds : extract_begin(Held, sd)

Tamper ==
  /\ pc = "embedDone"
  /\ \E k \in HeaderTamperBits \cup PayloadBits(payload) : tamper(k)

Next ==
  \/ EmbedCarrier
  \/ embed_loop
  \/ embed_return
  \/ Tamper
  \/ ExtractHeld
  \/ extract_loop
  \/ extract_return

Spec == Init /\ [][Next]_vars

(* ------------------------------------------------------------------ *)
(* Several embeds on one image: each call takes the original carrier   *)
(* or the buffer the previous call returned                            *)
(* ------------------------------------------------------------------ *)
InitChain ==
  InitWith(ChainGeometry[1], ChainGeometry[2], ChainGeometry[3],
           Carrier(ChainGeometry[1] * ChainGeometry[2] * ChainGeometry[3], 1))

EmbedChained ==
  /\ embeds < MaxEmbeds
  /\ \E img \in {carrier, Held}, pl \in ChainPayloads, sd \in ChainSeeds :
        embed_begin(img, pl, sd)

ExtractChained ==
  /\ pc \in Returned
  /\ \E sd \in ChainSeeds : extract_begin(Held, sd)

NextChain ==
  \/ EmbedChained
  \/ embed_loop
  \/ embed_return
  \/ ExtractChained
  \/ extract_loop
  \/ extract_return

SpecChain == InitChain /\ [][NextChain]_vars

(* ------------------------------------------------------------------ *)
(* The capacity function on its own                                    *)
(* ------------------------------------------------------------------ *)
InitCap == InitWith(0, 0, 1, <<>>)

CapacityQuery ==
  /\ pc \in Returned
  /\ \E w \in 0..MaxDim, h \in 0..MaxDim, ch \in 1..4 : capacity_call(w, h, ch)

NextCap == CapacityQuery

SpecCap == InitCap /\ [][NextCap]_vars

(* ------------------------------------------------------------------ *)
(* crc32 on its own                                                    *)
(* ------------------------------------------------------------------ *)
CrcBytes == {0, 1, 97, 165, 255}

RECURSIVE SeqsUpTo(_, _)
SeqsUpTo(S, n) ==
  IF n = 0 THEN {<<>>}
  ELSE LET shorter == SeqsUpTo(S, n - 1)
       IN  shorter \cup {Append(q, b) : q \in shorter, b \in S}

CrcInputs == SeqsUpTo(CrcBytes, MaxCrcLen)

\* getCRC32Table() called by an earlier user of the module: the table is
\* built and kept
getCRC32Table_call ==
  /\ pc = "idle"
  /\ crc32Table = <<>>
  /\ crc32Table' = CachedCRC32Table(crc32Table)
  /\ UNCHANGED <<pc, session, stego, imageData, payload, seed, pixelOrder, p, c,
                 embedLocals, extractLocals, result, error, callerBefore, history>>
  /\ UNCHANGED <<streaming, prng, metadata, recovery, retired>>

\* crc32(data) called by itself; cached records whether the module-level
\* table existed when the call was made
crc32_call(data) ==
  /\ pc = "idle"
  /\ pc' = "crcDone"
  /\ payload' = data
  /\ result' = [kind |-> "crc32", value |-> crc32(data, crc32Table),
                cached |-> crc32Table # <<>>]
  /\ crc32Table' = CachedCRC32Table(crc32Table)
  /\ UNCHANGED <<session, stego, imageData, seed, pixelOrder, p, c, embedLocals,
                 extractLocals, error, callerBefore, history>>
  /\ UNCHANGED <<streaming, prng, metadata, recovery, retired>>

InitCrc == InitWith(0, 0, 1, <<>>)

CrcQuery ==
  /\ pc = "idle"
  /\ \E data \in CrcInputs : crc32_call(data)

NextCrc == getCRC32Table_call \/ CrcQuery

SpecCrc == InitCrc /\ [][NextCrc]_vars

(* ------------------------------------------------------------------ *)
(* The SeededPRNG on its own                                           *)
(* ------------------------------------------------------------------ *)
\* hash.readUInt32BE(0) of the seeds of the constructor
PrngStates == {SeedState("k1"), SeedState("k128870"), SeedState("k149701"),
               <<0, 0, 0, 0>>, <<255, 255, 255, 255>>,
               <<128, 0, 0, 0>>, <<127, 255, 255, 255>>}

\* new SeededPRNG(seed)
SeededPRNG_new(state0) ==
  /\ pc = "idle"
  /\ pc' = "prng"
  /\ prng' = [NoPrng EXCEPT !.state = state0, !.constructed = state0]
  /\ UNCHANGED <<crc32Table, session, stego, imageData, payload, seed, pixelOrder,
                 p, c, embedLocals, extractLocals, result, error, callerBefore,
                 history, streaming, metadata, recovery, retired>>

\* shuffleIndices(length) up to its loop
shuffleIndices_begin(length) ==
  /\ pc = "prng"
  /\ pc' = "shuffle"
  /\ prng' = [prng EXCEPT !.length = length,
                          !.indices = [k \in 1..length |-> k - 1],
                          !.i = length - 1]
  /\ UNCHANGED <<crc32Table, session, stego, imageData, payload, seed, pixelOrder,
                 p, c, embedLocals, extractLocals, result, error, callerBefore,
                 history, streaming, metadata, recovery, retired>>

\* one iteration of the loop of shuffleIndices, the call of next() included
shuffleIndices_loop ==
  /\ pc = "shuffle"
  /\ prng.i > 0
  /\ LET st == next(prng.state)
         j  == WordMod(st, prng.i + 1)
     IN  prng' = [prng EXCEPT !.before = prng.state,
                              !.state = st,
                              !.returned = st,
                              !.calls = @ + 1,
                              !.j = j,
                              !.indices = Swap(@, prng.i + 1, j + 1),
                              !.i = @ - 1]
  /\ UNCHANGED <<crc32Table, pc, session, stego, imageData, payload, seed,
                 pixelOrder, p, c, embedLocals, extractLocals, result, error,
                 callerBefore, history, streaming, metadata, recovery, retired>>

shuffleIndices_return ==
  /\ pc = "shuffle"
  /\ prng.i <= 0
  /\ pc' = "shuffleDone"
  /\ result' = [kind |-> "shuffleIndices", indices |-> prng.indices]
  /\ UNCHANGED <<crc32Table, session, stego, imageData, payload, seed, pixelOrder,
                 p, c, embedLocals, extractLocals, error, callerBefore,
                 history, streaming, prng, metadata,
                 recovery, retired>>

InitPrng == InitWith(0, 0, 1, <<>>)

Construct ==
  /\ pc = "idle"
  /\ \E state0 \in PrngStates : SeededPRNG_new(state0)

Shuffle ==
  /\ pc = "prng"
  /\ \E length \in 0..MaxShuffle : shuffleIndices_begin(length)

NextPrng == Construct \/ Shuffle \/ shuffleIndices_loop \/ shuffleIndices_return

SpecPrng == InitPrng /\ [][NextPrng]_vars

(* ------------------------------------------------------------------ *)
(* The metadata rows: upload, hide, revoke, shred, recover             *)
(* ------------------------------------------------------------------ *)
Users == {"u1", "u2"}
\* supabase.auth.getUser(): a user, or none
Callers == Users \cup {""}

\* variant: only REVOKED stops a recovery
RecoveryBlocked_revokedOnly(status) == status = "REVOKED"

\* meta.status === 'REVOKED' || meta.status === 'EXPIRED'
RecoveryBlocked(status) == status = "REVOKED" \/ status = "EXPIRED"

\* .update(fields).eq('id', metadataId).eq('user_id', user.id): the table
\* afterwards; a row that does not match is left as it is, without error
UpdateOwned(table, id, user, fields) ==
  [r \in DOMAIN table |->
     IF r = id /\ table[r] # NoRow /\ table[r].owner = user
     THEN [f \in DOMAIN table[r] |->
             IF f \in DOMAIN fields THEN fields[f] ELSE table[r][f]]
     ELSE table[r]]

\* ids of the rows the update matches
Matched(table, id, user) ==
  {r \in DOMAIN table : r = id /\ table[r] # NoRow /\ table[r].owner = user}

\* uploadAndProcess at its insert into metadata: a new row with a new id
uploadAndProcess_insert ==
  /\ recovery.stage \in {"none", "returned"}
  /\ \E user \in Users, id \in DOMAIN metadata :
        /\ metadata[id] = NoRow
        /\ \A r \in DOMAIN metadata : r < id => metadata[r] # NoRow
        /\ metadata' = [metadata EXCEPT ![id] =
                          [owner |-> user, status |-> "ACTIVE",
                           encrypted_key |-> "KEY"]]
        /\ result' = [kind |-> "uploadAndProcess", success |-> TRUE]
  /\ UNCHANGED <<crc32Table, pc, session, stego, imageData, payload, seed,
                 pixelOrder, p, c, embedLocals, extractLocals, error,
                 callerBefore, history, streaming, prng, recovery, retired>>

\* a lifecycle call that updates the row: without a user it fails, with a
\* database error it fails and writes nothing, else the update is applied
\* to the rows it matches
LifecycleUpdate(name, fields) ==
  \E user \in Callers, id \in 0..MaxRows, dbError \in BOOLEAN :
     IF user = "" \/ dbError
     THEN /\ result' = [kind |-> name, success |-> FALSE]
          /\ UNCHANGED <<metadata, retired>>
     ELSE /\ metadata' = UpdateOwned(metadata, id, user, fields)
          /\ retired' = retired \cup Matched(metadata, id, user)
          /\ result' = [kind |-> name, success |-> TRUE]

hideFile ==
  /\ pc = "idle"
  /\ LifecycleUpdate("hideFile", [status |-> "REVOKED"])
  /\ UNCHANGED <<crc32Table, pc, session, stego, imageData, payload, seed,
                 pixelOrder, p, c, embedLocals, extractLocals, error,
                 callerBefore, history, streaming, prng, recovery>>

revokeFile ==
  /\ pc = "idle"
  /\ LifecycleUpdate("revokeFile", [status |-> "REVOKED"])
  /\ UNCHANGED <<crc32Table, pc, session, stego, imageData, payload, seed,
                 pixelOrder, p, c, embedLocals, extractLocals, error,
                 callerBefore, history, streaming, prng, recovery>>

cryptoShredFile ==
  /\ pc = "idle"
  /\ LifecycleUpdate("cryptoShredFile",
                     [status |-> "EXPIRED", encrypted_key |-> "SHREDDED"])
  /\ UNCHANGED <<crc32Table, pc, session, stego, imageData, payload, seed,
                 pixelOrder, p, c, embedLocals, extractLocals, error,
                 callerBefore, history, streaming, prng, recovery>>

\* recoverFile up to the status check: authentication, rate limit, the
\* metadataId of the form, the select of the row, its status
recoverFile_begin ==
  /\ recovery.stage \in {"none", "returned"}
  /\ \E user \in Callers, id \in 0..MaxRows, limited \in BOOLEAN :
        LET found == Matched(metadata, id, user) # {}
            failed(msg) == [NoRecovery EXCEPT !.stage = "returned", !.user = user,
                                              !.metadataId = id,
                                              !.afterRetire = id \in retired,
                                              !.error = msg]
        IN  recovery' =
              IF user = "" THEN failed("Authentication required")
              ELSE IF limited THEN failed("Rate limit exceeded")
              ELSE IF id = 0 THEN failed("Metadata ID is required to recover the file")
              ELSE IF ~found THEN failed("File metadata not found or access denied")
              ELSE IF RecoveryBlocked(metadata[id].status)
                   THEN failed("This file has been revoked or shredded and cannot be recovered")
              ELSE [NoRecovery EXCEPT !.stage = "checked", !.user = user,
                                      !.metadataId = id, !.meta = metadata[id],
                                      !.afterRetire = id \in retired]
  /\ UNCHANGED <<crc32Table, pc, session, stego, imageData, payload, seed,
                 pixelOrder, p, c, embedLocals, extractLocals, result, error,
                 callerBefore, history, streaming, prng, metadata, retired>>

\* recoverFile from the download of the stego image to the integrity checks:
\* extract is called; the image, the seed, the CRC and the hash may each fail
recoverFile_extract ==
  /\ recovery.stage = "checked"
  /\ \E outcome \in {"", "Stego image not provided and AWS vault copy unavailable",
                     "CRC integrity check failed - data may be corrupted"} :
        recovery' =
          IF outcome = "Stego image not provided and AWS vault copy unavailable"
          THEN [recovery EXCEPT !.stage = "returned", !.error = outcome]
          ELSE IF outcome # ""
          THEN [recovery EXCEPT !.stage = "returned", !.extracted = TRUE,
                                !.error = outcome]
          ELSE [recovery EXCEPT !.stage = "extracted", !.extracted = TRUE]
  /\ UNCHANGED <<crc32Table, pc, session, stego, imageData, payload, seed,
                 pixelOrder, p, c, embedLocals, extractLocals, result, error,
                 callerBefore, history, streaming, prng, metadata, retired>>

\* recoverFile from decrypt, with the key material read at the select, to
\* its return
recoverFile_decrypt ==
  /\ recovery.stage = "extracted"
  /\ recovery' =
       IF recovery.meta.encrypted_key = "SHREDDED"
       THEN [recovery EXCEPT !.stage = "returned", !.decrypted = TRUE,
                             !.error = "Decryption failed - key or data mismatch"]
       ELSE [recovery EXCEPT !.stage = "returned", !.decrypted = TRUE,
                             !.success = TRUE]
  /\ UNCHANGED <<crc32Table, pc, session, stego, imageData, payload, seed,
                 pixelOrder, p, c, embedLocals, extractLocals, result, error,
                 callerBefore, history, streaming, prng, metadata, retired>>

InitLifecycle == InitWith(0, 0, 1, <<>>)

NextLifecycle ==
  \/ uploadAndProcess_insert
  \/ hideFile
  \/ revokeFile
  \/ cryptoShredFile
  \/ recoverFile_begin
  \/ recoverFile_extract
  \/ recoverFile_decrypt

SpecLifecycle == InitLifecycle /\ [][NextLifecycle]_vars

(* ------------------------------------------------------------------ *)
(* The earlier buffer-based embed and its SeededPRNG                   *)
(* ------------------------------------------------------------------ *)
\* the value of an array element or property that was never set
Undefined == -1

\* (state * 1664525 + 1013904223) & 0xffffffff: the product is exact in a
\* double, so the state holds the same 32 bits, read as a signed int32
nextLegacy(state) ==
  LET a0 == state[4] * LcgMul + LcgInc
      a1 == state[3] * LcgMul + (a0 \div 256)
      a2 == state[2] * LcgMul + (a1 \div 256)
      a3 == state[1] * LcgMul + (a2 \div 256)
  IN  <<a3 % 256, a2 % 256, a1 % 256, a0 % 256>>

\* 2^32 modulo a small natural m
TwoTo32Mod(m) == (((65536 % m) * (65536 % m)) % m)

\* next() % m on the signed value: the remainder takes the sign of the
\* dividend, so a state with the top bit set gives -((2^32 - state) % m)
SignedRemainder(state, m) ==
  IF state[1] < 128 THEN WordMod(state, m)
  ELSE 0 - ((TwoTo32Mod(m) + m - WordMod(state, m)) % m)

\* the loop of the legacy shuffleIndices from i down to 1. indices[j] with a
\* negative j reads and writes a property of the array object (props, keyed
\* by -j), never an element
RECURSIVE ShuffleFromLegacy(_, _, _, _)
ShuffleFromLegacy(indices, props, state, i) ==
  IF i > 0
  THEN LET st == nextLegacy(state)
           j  == SignedRemainder(st, i + 1)
           temp == indices[i + 1]
       IN  IF j >= 0
           THEN ShuffleFromLegacy(
                  [indices EXCEPT ![i + 1] = indices[j + 1], ![j + 1] = temp],
                  props, st, i - 1)
           ELSE ShuffleFromLegacy(
                  [indices EXCEPT ![i + 1] = props[0 - j]],
                  [props EXCEPT ![0 - j] = temp], st, i - 1)
  ELSE indices

shuffleIndicesLegacy(state, length) ==
  ShuffleFromLegacy([k \in 1..length |-> k - 1],
                    [k \in 1..length |-> Undefined], state, length - 1)

\* the error embedLegacy throws when the payload is larger than the capacity
CapacityErrorLegacy(pl, cap) ==
  [message |-> "Payload (%1 bytes) exceeds capacity (%2 bytes)",
   args |-> <<Len(pl), cap>>]

embedLegacy_begin(img, pl, sd) ==
  /\ pc \in Returned
  /\ pc' = IF Len(pl) > calculateCapacity(width, height, channels)
           THEN "embedFailed"
           ELSE IF 0 < width * height THEN "embedLegacy" ELSE "embedLegacyEnd"
  /\ imageData' = img /\ callerBefore' = img
  /\ payload' = pl /\ seed' = sd
  /\ capacity' = calculateCapacity(width, height, channels)
  /\ result' = NoResult
  /\ embeds' = embeds + 1
  /\ p' = 0 /\ c' = 0
  /\ frameByteIdx' = 0 /\ frameBitIdx' = 0
  /\ pixelsModified' = 0 /\ modified' = FALSE
  /\ extractedBytes' = <<>> /\ byteIdx' = 0 /\ bitIdx' = 0 /\ currentByte' = 0
  /\ extractedLength' = <<0, 0, 0, 0>> /\ isHeaderParsed' = FALSE
  /\ targetSize' = 0
  /\ IF Len(pl) > calculateCapacity(width, height, channels)
     THEN /\ error' = CapacityErrorLegacy(pl, calculateCapacity(width, height, channels))
          /\ frame' = <<>> /\ output' = <<>> /\ pixelOrder' = <<>>
          /\ UNCHANGED crc32Table
     ELSE /\ error' = NoError
          /\ frame' = BuildFrame(pl, crc32Table)
          /\ crc32Table' = CachedCRC32Table(crc32Table)
          /\ output' = img
          /\ pixelOrder' = shuffleIndicesLegacy(SeedState(sd), width * height)
  /\ UNCHANGED <<session, stego, embedded, flipped, first>>
  /\ UNCHANGED <<streaming, prng, metadata, recovery, retired>>

\* one iteration of the channel loop. An undefined pixelOrder[p] makes the
\* byte offset NaN: output[NaN] reads undefined (0 under & and |) and the
\* store to output[NaN] is dropped
embedLegacy_loop ==
  /\ pc = "embedLegacy"
  /\ LET usableChannels == Min(channels, 3)
         pixelIdx == pixelOrder[p + 1]
         byteOffset == pixelIdx * channels + c
         r == IF pixelIdx = Undefined
              THEN [EmbedChannel(<<0>>, frame, frameByteIdx, frameBitIdx, modified, 0)
                      EXCEPT !.output = output]
              ELSE EmbedChannel(output, frame, frameByteIdx, frameBitIdx, modified,
                                byteOffset)
         pixelEnds == r.broke \/ ~(c + 1 < usableChannels /\ r.frameByteIdx < Len(frame))
         pMod == IF r.modified THEN pixelsModified + 1 ELSE pixelsModified
     IN  /\ output' = r.output
         /\ frameByteIdx' = r.frameByteIdx
         /\ frameBitIdx' = r.frameBitIdx
         /\ IF pixelEnds
            THEN /\ pixelsModified' = pMod
                 /\ modified' = FALSE
                 /\ p' = p + 1 /\ c' = 0
                 /\ pc' = IF p + 1 < Len(pixelOrder) /\ r.frameByteIdx < Len(frame)
                          THEN "embedLegacy" ELSE "embedLegacyEnd"
            ELSE /\ pixelsModified' = pixelsModified
                 /\ modified' = r.modified
                 /\ p' = p /\ c' = c + 1
                 /\ pc' = "embedLegacy"
  /\ UNCHANGED <<crc32Table, session, stego, imageData, payload, seed, capacity,
                 frame, pixelOrder, extractLocals, result, error, callerBefore,
                 history>>
  /\ UNCHANGED <<streaming, prng, metadata, recovery, retired>>

embedLegacy_return ==
  /\ pc = "embedLegacyEnd"
  /\ pc' = "embedDone"
  /\ result' = [kind |-> "embed", stegoImageBuffer |-> output,
                capacityUsed |-> Len(payload), capacityTotal |-> capacity,
                pixelsModified |-> pixelsModified]
  /\ stego' = output
  /\ embedded' = [ok |-> TRUE, input |-> imageData, payload |-> payload,
                  seed |-> seed, output |-> output]
  /\ flipped' = -1
  /\ first' = IF first.ok THEN first
              ELSE [ok |-> TRUE, input |-> imageData, payload |-> payload,
                    seed |-> seed,
                    result |-> [kind |-> "embed", stegoImageBuffer |-> output,
                                capacityUsed |-> Len(payload),
                                capacityTotal |-> capacity,
                                pixelsModified |-> pixelsModified]]
  /\ UNCHANGED <<crc32Table, session, imageData, payload, seed, capacity, frame,
                 output, pixelOrder, p, c, frameByteIdx, frameBitIdx,
                 pixelsModified, modified, extractLocals, error, callerBefore,
                 embeds>>
  /\ UNCHANGED <<streaming, prng, metadata, recovery, retired>>

\* an image written by embedLegacy, read by extract
EmbedLegacyCarrier ==
  /\ embeds = 0
  /\ \E pl \in Payloads, sd \in Seeds : embedLegacy_begin(carrier, pl, sd)

NextLegacy ==
  \/ EmbedLegacyCarrier
  \/ embedLegacy_loop
  \/ embedLegacy_return
  \/ ExtractHeld
  \/ extract_loop
  \/ extract_return

SpecLegacy == Init /\ [][NextLegacy]_vars

(* ------------------------------------------------------------------ *)
(* The stream-based embed and its StegoTransform                       *)
(* ------------------------------------------------------------------ *)
\* <<width, height, channels>> of the streamed images: one too small for
\* any frame, an RGB and an RGBA image that pass the capacity check
StreamGeometries == {<<2, 2, 3>>, <<5, 7, 3>>, <<5, 7, 4>>}

\* lengths the raw decoder may give a chunk (the last chunk takes the rest)
ChunkLengths == {1, 3, 4, 64}

Stages == {"decoder", "transform", "encoder"}

\* variant: bitIdx wraps at 8 without the increment of byteIdx
CursorStep_noCarry(t, cursor, i) ==
  IF t.channels = 4 /\ (i + 1) % 4 = 0 THEN cursor
  ELSE IF cursor \div 8 >= Len(t.payload) THEN cursor
       ELSE IF cursor % 8 = 7 THEN cursor - 7 ELSE cursor + 1

\* one iteration of the loop of _transform at index i: the cursor
\* 8 * byteIdx + bitIdx after it
CursorStep(t, cursor, i) ==
  IF t.channels = 4 /\ (i + 1) % 4 = 0 THEN cursor
  ELSE IF cursor \div 8 >= Len(t.payload) THEN cursor
       ELSE cursor + 1

\* the cursor at the start of each of the iterations i..n-1 of the loop,
\* run as i..m-1 followed by m..n-1; once byteIdx has reached payload.length
\* every iteration leaves the cursor alone
RECURSIVE CursorsFrom(_, _, _, _)
CursorsFrom(t, cursor, i, n) ==
  IF i >= n THEN <<>>
  ELSE IF cursor \div 8 >= Len(t.payload) \/ n - i = 1
       THEN [k \in 1..(n - i) |-> cursor]
       ELSE LET m == (i + n) \div 2
                left == CursorsFrom(t, cursor, i, m)
            IN  left \o CursorsFrom(t, CursorStep(t, left[m - i], m - 1), m, n)

\* the iteration at index i, entered with this cursor, assigns to chunk[i]
Writes(t, cursor, i) ==
  /\ ~(t.channels = 4 /\ (i + 1) % 4 = 0)
  /\ cursor \div 8 < Len(t.payload)

\* _transform(chunk): the StegoTransform afterwards, the chunk it pushes and
\* the <<frame bit, chunk index>> pairs of the assignments made
TransformChunk(t, chunk) ==
  LET n == Len(chunk)
      start == 8 * t.byteIdx + t.bitIdx
      at == CursorsFrom(t, start, 0, n)
      end == IF n = 0 THEN start ELSE CursorStep(t, at[n], n - 1)
  IN  [transform |-> [t EXCEPT !.byteIdx = end \div 8, !.bitIdx = end % 8],
       chunk |-> [j \in 1..n |->
                    IF Writes(t, at[j], j - 1)
                    THEN SetBit0(chunk[j], FrameBit(t.payload, at[j] \div 8, at[j] % 8))
                    ELSE chunk[j]],
       written |-> {<<at[j], j - 1>> : j \in {k \in 1..n : Writes(t, at[k], k - 1)}}]

RECURSIVE ConcatChunks(_)
ConcatChunks(chunks) ==
  IF chunks = <<>> THEN <<>> ELSE Head(chunks) \o ConcatChunks(Tail(chunks))

\* frame.length > capacity, with the capacity of calculateCapacity
FrameExceedsCapacity(fr, cap) == Len(fr) > cap

CapacityErrorStream(fr, cap) ==
  [message |-> "Payload (%1 bytes) exceeds capacity (%2 bytes)",
   args |-> <<Len(fr), cap>>]

\* embed(carrierBuffer, payloadBuffer, seed) up to the start of the pipeline;
\* img holds the raw pixels of the carrier, readable tells whether sharp can
\* read its metadata
streamEmbed_begin(img, pl, sd, readable) ==
  /\ pc \in Returned
  /\ imageData' = img /\ callerBefore' = img
  /\ payload' = pl /\ seed' = sd
  /\ result' = NoResult
  /\ embeds' = embeds + 1
  /\ IF ~readable
     THEN /\ pc' = "embedFailed"
          /\ promise' = "rejected"
          /\ error' = [message |-> "Input buffer contains unsupported image format",
                       args |-> <<>>]
          /\ stegoTransform' = NoTransform /\ pipeline' = NoPipeline
          /\ UNCHANGED <<crc32Table, frame, capacity>>
     ELSE /\ frame' = BuildFrame(pl, crc32Table)
          /\ crc32Table' = CachedCRC32Table(crc32Table)
          /\ capacity' = calculateCapacity(width, height, channels)
          /\ IF FrameExceedsCapacity(BuildFrame(pl, crc32Table),
                                     calculateCapacity(width, height, channels))
             THEN /\ pc' = "embedFailed"
                  /\ promise' = "rejected"
                  /\ error' = CapacityErrorStream(BuildFrame(pl, crc32Table),
                                calculateCapacity(width, height, channels))
                  /\ stegoTransform' = NoTransform /\ pipeline' = NoPipeline
             ELSE /\ pc' = "stream"
                  /\ promise' = "pending"
                  /\ error' = NoError
                  /\ stegoTransform' = [payload |-> BuildFrame(pl, crc32Table),
                                        channels |-> channels,
                                        byteIdx |-> 0, bitIdx |-> 0]
                  /\ pipeline' = [NoPipeline EXCEPT !.pending = img]
  /\ UNCHANGED <<prng, metadata, recovery, retired>>
  /\ UNCHANGED <<session, stego, output, pixelOrder, p, c, frameByteIdx,
                 frameBitIdx, pixelsModified, modified, extractLocals,
                 embedded, flipped, first>>

\* the raw decoder hands the next n pixel bytes to StegoTransform, which
\* pushes the chunk on to the encoder
StegoTransform_transform(n) ==
  /\ pc = "stream"
  /\ pipeline.failed = ""
  /\ n \in 1..Len(pipeline.pending)
  /\ LET chunk == SubSeq(pipeline.pending, 1, n)
         base == Len(imageData) - Len(pipeline.pending)
         r == TransformChunk(stegoTransform, chunk)
     IN  /\ stegoTransform' = r.transform
         /\ pipeline' = [pipeline EXCEPT
              !.pending = SubSeq(pipeline.pending, n + 1, Len(pipeline.pending)),
              !.chunks = Append(@, chunk),
              !.pushed = Append(@, r.chunk),
              !.layout = @ \cup {<<w[1], base + w[2]>> : w \in r.written}]
  /\ UNCHANGED <<prng, metadata, recovery, retired>>
  /\ UNCHANGED <<crc32Table, pc, session, stego, imageData, payload, seed,
                 pixelOrder, p, c, embedLocals, extractLocals, result, error,
                 callerBefore, history, promise>>

\* the encoder's 'end': the promise resolves; the PNG container is lossless,
\* so stegoImageBuffer is given by the pixels it encodes
stream_end ==
  /\ pc = "stream"
  /\ pipeline.failed = ""
  /\ pipeline.pending = <<>>
  /\ pc' = "embedDone"
  /\ promise' = "resolved"
  /\ result' = [kind |-> "embed",
                stegoImageBuffer |-> ConcatChunks(pipeline.pushed),
                capacityUsed |-> Len(frame), capacityTotal |-> capacity,
                pixelsModified |-> Len(payload)]
  /\ stego' = ConcatChunks(pipeline.pushed)
  /\ embedded' = [ok |-> TRUE, input |-> imageData, payload |-> payload,
                  seed |-> seed, output |-> ConcatChunks(pipeline.pushed)]
  /\ flipped' = -1
  /\ first' = IF first.ok THEN first
              ELSE [ok |-> TRUE, input |-> imageData, payload |-> payload,
                    seed |-> seed, layout |-> pipeline.layout,
                    output |-> ConcatChunks(pipeline.pushed)]
  /\ UNCHANGED <<prng, metadata, recovery, retired>>
  /\ UNCHANGED <<crc32Table, session, imageData, payload, seed, pixelOrder, p, c,
                 embedLocals, extractLocals, error, callerBefore, embeds,
                 stegoTransform, pipeline>>

\* a stage emits 'error'. Only the encoder, last of the chain, has a
\* listener (it rejects); pipe() forwards no error, so an error of the
\* decoder or of StegoTransform is an unhandled 'error' event: the pipeline
\* stops and neither resolve nor reject is ever called
stage_error(stage) ==
  /\ pc = "stream"
  /\ pipeline.failed = ""
  /\ pipeline' = [pipeline EXCEPT !.failed = stage]
  /\ IF stage = "encoder"
     THEN /\ pc' = "embedFailed"
          /\ promise' = "rejected"
          /\ error' = [message |-> "Steganography embedding failed: %1",
                       args |-> <<stage>>]
     ELSE /\ pc' = "streamHalted"
          /\ UNCHANGED <<promise, error>>
  /\ UNCHANGED <<prng, metadata, recovery, retired>>
  /\ UNCHANGED <<crc32Table, session, stego, imageData, payload, seed,
                 pixelOrder, p, c, embedLocals, extractLocals, result,
                 callerBefore, history, stegoTransform>>

InitStream ==
  \E g \in StreamGeometries, k \in 1..NumCarriers :
      InitWith(g[1], g[2], g[3], Carrier(g[1] * g[2] * g[3], k))

StreamEmbedCarrier ==
  /\ embeds = 0
  /\ \E pl \in Payloads, sd \in Seeds, readable \in BOOLEAN :
        streamEmbed_begin(carrier, pl, sd, readable)

\* chunks of any of the ChunkLengths, at most MaxChunks of them
Transform ==
  /\ pc = "stream"
  /\ \E n \in {k \in ChunkLengths : Len(pipeline.chunks) + 1 < MaxChunks}
               \cup {Len(pipeline.pending)} :
        StegoTransform_transform(n)

StageError ==
  /\ pc = "stream"
  /\ \E stage \in Stages : stage_error(stage)

NextStream ==
  \/ StreamEmbedCarrier
  \/ Transform
  \/ stream_end
  \/ StageError

SpecStream == InitStream /\ [][NextStream]_vars

\* the same carrier embedded several times, each raw stream in one chunk
StreamEmbedAgain ==
  /\ embeds < MaxEmbeds
  /\ pc \in Returned
  /\ \E pl \in Payloads, sd \in Seeds : streamEmbed_begin(carrier, pl, sd, TRUE)

TransformWhole ==
  /\ pc = "stream"
  /\ pipeline.pending # <<>>
  /\ StegoTransform_transform(Len(pipeline.pending))

NextStreamSeeds ==
  \/ StreamEmbedAgain
  \/ TransformWhole
  \/ stream_end

SpecStreamSeeds == InitStream /\ [][NextStreamSeeds]_vars

(* ------------------------------------------------------------------ *)
(* Reading a buffer back, independently of extract                     *)
(* ------------------------------------------------------------------ *)
\* frame bit k as it sits in buffer img along the order
ReadBit(img, order, ch, k) == BitOf(img[CarrierOffset(order, ch, k) + 1], k % 2)

ReadByte(img, order, ch, j) ==
  128 * ReadBit(img, order, ch, 8 * j) + 64 * ReadBit(img, order, ch, 8 * j + 1)
  + 32 * ReadBit(img, order, ch, 8 * j + 2) + 16 * ReadBit(img, order, ch, 8 * j + 3)
  + 8 * ReadBit(img, order, ch, 8 * j + 4) + 4 * ReadBit(img, order, ch, 8 * j + 5)
  + 2 * ReadBit(img, order, ch, 8 * j + 6) + ReadBit(img, order, ch, 8 * j + 7)

ReadBytes(img, order, ch, n) == [j \in 1..n |-> ReadByte(img, order, ch, j - 1)]

\* bytes the image can carry at 2 bits per usable channel
TotalBytes == (width * height * Min(channels, 3) * 2) \div 8

\* the buffer holds, along the order, a complete well-formed frame of data
FrameAlong(img, order, data) ==
  /\ Len(data) + HEADER_SIZE <= TotalBytes
  /\ ReadBytes(img, order, channels, Len(data) + HEADER_SIZE)
       = BuildFrame(data, BuiltCRC32Table)

\* payload pl with bit k of its frame flipped (k counted from the frame start)
FlipPayloadBit(pl, k) ==
  LET i == (k \div 8) - PREFIX_SIZE + 1
  IN  [pl EXCEPT ![i] = IF BitOf(pl[i], 7 - (k % 8)) = 1
                         THEN pl[i] - Pow2(7 - (k % 8))
                         ELSE pl[i] + Pow2(7 - (k % 8))]

ExtractOver == pc \in {"extractDone", "extractFailed"}

\* an extract call on the untouched output of the last embed
OnStego == embedded.ok /\ flipped = -1 /\ ExtractOver /\ imageData = embedded.output

(* ------------------------------------------------------------------ *)
(* Claims                                                              *)
(* ------------------------------------------------------------------ *)

\* C1: round trip. Extracting, with the seed of the embed, the buffer a
\* successful embed returned gives back the payload (the empty one
\* included) with integrityValid = true.
C1_RoundTrip ==
  (OnStego /\ seed = embedded.seed)
    => /\ pc = "extractDone"
       /\ result.extractedData = embedded.payload
       /\ result.integrityValid

\* C2: overflow rejection. Whenever the payload is longer than the capacity,
\* embed fails with the capacity error and the caller's input buffer is what
\* it was before the call.
C2_OverflowRejection ==
  (pc \in {"embed", "embedEnd", "embedDone", "embedFailed"}
     /\ Len(payload) > calculateCapacity(width, height, channels))
    => /\ pc = "embedFailed"
       /\ error.message = "Payload exceeds capacity"
       /\ result = NoResult
       /\ imageData = callerBefore
       /\ imageData = carrier

C2_Witness ==
  /\ pc = "embedFailed"
  /\ Len(payload) > calculateCapacity(width, height, channels)
  /\ calculateCapacity(width, height, channels) > 0

\* C3: no partial output. embed either fails with the capacity error before
\* writing any pixel byte, or returns success having written every bit of the
\* frame; it never returns success for a frame that does not fit.
C3_NoPartialOutput ==
  /\ pc = "embedFailed" => output = <<>>
  /\ pc = "embedDone"
       => /\ Len(frame) <= TotalBytes
          /\ frameByteIdx = Len(frame)
          /\ frameBitIdx = 0

\* C4 as stated: an extract with a seed other than the embed's never returns a
\* result with integrityValid = true whose data differs from the embedded
\* payload.
C4_WrongSeedNeverSucceeds ==
  (OnStego /\ seed # embedded.seed)
    => ~(/\ pc = "extractDone"
         /\ result.integrityValid
         /\ result.extractedData # embedded.payload)

\* C4 amended: an extract with a seed other than the embed's fails with a
\* format error, or reports integrityValid = false, or returns bytes for
\* which the buffer holds, along that seed's pixel order, a complete
\* well-formed frame (magic, their length, the bytes, their CRC-32).
C4_WrongSeedOutcome ==
  (OnStego /\ seed # embedded.seed)
    => \/ /\ pc = "extractFailed"
          /\ error.message \in {MagicMismatch, LengthOutOfRange, IncompleteFrame}
       \/ /\ pc = "extractDone"
          /\ ~result.integrityValid
       \/ /\ pc = "extractDone"
          /\ result.integrityValid
          /\ FrameAlong(imageData, pixelOrder, result.extractedData)

C4_Witness ==
  /\ OnStego /\ seed # embedded.seed
  /\ pc = "extractDone"
  /\ result.integrityValid
  /\ result.extractedData # embedded.payload

\* C5: tamper detection is non-fatal. After a successful embed, with one pixel
\* bit that carries a payload bit flipped, extract with the same seed does not
\* throw: it returns the corrupted payload, of the original length, with
\* integrityValid = false = (crc32 of the returned payload = stored checksum).
C5_TamperDetected ==
  (embedded.ok /\ ExtractOver /\ seed = embedded.seed
     /\ flipped \in PayloadBits(embedded.payload))
    => /\ pc = "extractDone"
       /\ result.dataLength = Len(embedded.payload)
       /\ result.extractedData = FlipPayloadBit(embedded.payload, flipped)
       /\ result.integrityValid = FALSE
       /\ result.integrityValid
            = (crc32(result.extractedData, crc32Table)
                 = SubSeq(extractedBytes, PREFIX_SIZE + result.dataLength + 1,
                          PREFIX_SIZE + result.dataLength + CRC_BYTES))
       /\ SubSeq(extractedBytes, PREFIX_SIZE + result.dataLength + 1,
                 PREFIX_SIZE + result.dataLength + CRC_BYTES)
            = crc32(embedded.payload, crc32Table)

C5_Witness ==
  /\ embedded.ok /\ pc = "extractDone" /\ seed = embedded.seed
  /\ flipped \in PayloadBits(embedded.payload)
  /\ Len(embedded.payload) = MaxPayloadLen

C7_Capacity ==
  pc = "capacityDone"
    => LET bits == width * height * (IF channels > 3 THEN 3 ELSE channels) * 2
       IN  /\ result.value >= 0
           /\ result.value = (IF bits \div 8 > 12 THEN (bits \div 8) - 12 ELSE 0)
           /\ channels = 4 => result.value = calculateCapacity(width, height, 3)
           /\ bits < 96 => result.value = 0
           /\ (width = 10 /\ height = 10 /\ channels = 4) => result.value = 63
           /\ \A w \in 0..MaxDim, h \in 0..MaxDim :
                 w * h <= width * height
                   => calculateCapacity(w, h, channels) <= result.value

C7_Witness ==
  /\ pc = "capacityDone"
  /\ width = 10 /\ height = 10 /\ channels = 4
  /\ result.value = 63

\* C8: when embed rejects a payload for capacity, the error carries
\* required = len(payload) + 12 and available = calculateCapacity(w,h,c).
C8_CapacityErrorFields ==
  pc = "embedFailed"
    => error.args = <<Len(payload) + HEADER_SIZE,
                      calculateCapacity(width, height, channels)>>

\* C9: header validation. Once 8 bytes have been read: bytes 0..3 other than
\* 'HSDC' make the call fail with the magic-mismatch error whatever the length
\* field holds; otherwise a length of 0 or above the capacity makes it fail
\* with the length error; in both cases nothing is returned.
C9_HeaderValidation ==
  (pc \in {"extract", "extractEnd", "extractDone", "extractFailed"}
     /\ byteIdx >= PREFIX_SIZE)
    => LET magic == SubSeq(extractedBytes, 1, 4)
           length == SubSeq(extractedBytes, 5, 8)
           badLength == \/ length = <<0, 0, 0, 0>>
                        \/ length[1] > 0
                        \/ WordLow(length) > calculateCapacity(width, height, channels)
       IN  /\ magic # HSDC_MAGIC
             => /\ pc = "extractFailed"
                /\ error.message = MagicMismatch
                /\ result = NoResult
           /\ (magic = HSDC_MAGIC /\ badLength)
             => /\ pc = "extractFailed"
                /\ error.message = LengthOutOfRange
                /\ result = NoResult

C9_Witness ==
  /\ pc = "extractFailed"
  /\ error.message = LengthOutOfRange
  /\ SubSeq(extractedBytes, 1, 4) = HSDC_MAGIC
  /\ extractedBytes[5] >= 128

\* C10: incomplete frame. When the traversal of all pixels ends with fewer
\* bytes read than the current target, the call fails with the
\* incomplete-frame error; every result comes from a frame read in full.
C10_IncompleteFrame ==
  /\ (ExtractOver /\ error.message \notin {MagicMismatch, LengthOutOfRange}
        /\ byteIdx < targetSize)
       => /\ pc = "extractFailed"
          /\ error.message = IncompleteFrame
          /\ result = NoResult
  /\ pc = "extractDone"
       => /\ isHeaderParsed
          /\ targetSize = PREFIX_SIZE + WordLow(extractedLength) + CRC_BYTES
          /\ byteIdx = targetSize
          /\ result.dataLength = WordLow(extractedLength)
          /\ Len(result.extractedData) = result.dataLength

C10_Witness ==
  /\ pc = "extractFailed"
  /\ error.message = IncompleteFrame
  /\ byteIdx < PREFIX_SIZE
  /\ ~isHeaderParsed

(* ------------------------------------------------------------------ *)
(* Frame layout and traversal (permuted mode)                          *)
(* ------------------------------------------------------------------ *)
\* CRC-32 (IEEE 802.3) computed bit by bit, without a table
RECURSIVE ReferenceCrcShift(_, _)
ReferenceCrcShift(crc, n) ==
  IF n = 0 THEN crc
  ELSE ReferenceCrcShift(IF BitOf(crc[4], 0) = 1
                         THEN XorWord(Shr1(crc), <<237, 184, 131, 32>>) ELSE Shr1(crc), n - 1)

RECURSIVE ReferenceCrcBytes(_, _, _)
ReferenceCrcBytes(crc, data, i) ==
  IF i > Len(data) THEN crc
  ELSE ReferenceCrcBytes(
         ReferenceCrcShift(<<crc[1], crc[2], crc[3], XorByte(crc[4], data[i])>>, 8),
         data, i + 1)

ReferenceCrc32(data) ==
  XorWord(ReferenceCrcBytes(<<255, 255, 255, 255>>, data, 1), <<255, 255, 255, 255>>)

EmbedRunning == pc \in {"embed", "embedEnd", "embedDone"}
ExtractRunning == pc \in {"extract", "extractEnd", "extractDone", "extractFailed"}

\* C17: frame layout. The frame embed builds is 'HSDC', the big-endian
\* uint32 payload length, the payload, the big-endian uint32 CRC-32 of the
\* payload alone; its size is len(payload) + 12.
C17_FrameLayout ==
  EmbedRunning
    => /\ Len(frame) = Len(payload) + 12
       /\ SubSeq(frame, 1, 4) = <<72, 83, 68, 67>>
       /\ SubSeq(frame, 5, 8) = <<0, 0, Len(payload) \div 256, Len(payload) % 256>>
       /\ SubSeq(frame, 9, 8 + Len(payload)) = payload
       /\ SubSeq(frame, 9 + Len(payload), 12 + Len(payload)) = ReferenceCrc32(payload)

C17_Witness ==
  /\ pc = "embedDone"
  /\ payload = <<65, 165>>
  /\ frame = <<72, 83, 68, 67, 0, 0, 0, 2, 65, 165, 14, 7, 59, 220>>

\* C18: frame parsing. A result of extract with length L carries the bytes
\* read at [8, 8+L) as payload, L is the big-endian uint32 read at [4, 8),
\* and integrityValid compares the CRC-32 of that payload with the bytes
\* read at [8+L, 12+L); the payload starts at 8 for every L.
C18_FrameParsing ==
  pc = "extractDone"
    => LET L == result.dataLength
           read == ReadBytes(imageData, pixelOrder, channels, L + 12)
       IN  /\ SubSeq(read, 5, 8) = <<0, 0, L \div 256, L % 256>>
           /\ result.extractedData = SubSeq(read, 9, 8 + L)
           /\ result.integrityValid
                = (SubSeq(read, 9 + L, 12 + L) = ReferenceCrc32(SubSeq(read, 9, 8 + L)))

C18_Witness ==
  /\ pc = "extractDone"
  /\ result.dataLength = 2
  /\ result.integrityValid
  /\ result.extractedData = <<65, 165>>

\* C19: one traversal for both directions. While embed runs, every frame bit
\* written so far sits, MSB first, at the position the pixel order gives it
\* (pixel order[k \div 2u], channel (k \div 2) % u, bit k % 2, u usable
\* channels) and the cursor is two bits per channel visited; while extract
\* runs, the bytes read so far are the bits at those same positions, the
\* cursor advances the same way through the header and beyond (no position
\* is read twice, the traversal never restarts), and on the untouched output
\* of embed with the same seed they are the frame's bytes.
C19_SameTraversal ==
  LET u == Min(channels, 3)
  IN  /\ EmbedRunning
        => /\ \A k \in 0..(8 * frameByteIdx + frameBitIdx - 1) :
                ReadBit(output, pixelOrder, channels, k)
                  = BitOf(frame[(k \div 8) + 1], 7 - (k % 8))
           /\ pc = "embed" => 8 * frameByteIdx + frameBitIdx = 2 * (p * u + c)
      /\ ExtractRunning
        => /\ SubSeq(extractedBytes, 1, byteIdx)
                = ReadBytes(imageData, pixelOrder, channels, byteIdx)
           /\ pc = "extract" => 8 * byteIdx + bitIdx = 2 * (p * u + c)
           /\ (embedded.ok /\ flipped = -1 /\ imageData = embedded.output
                 /\ seed = embedded.seed)
                => LET fr == BuildFrame(embedded.payload, crc32Table)
                   IN  \A j \in 1..Min(byteIdx, Len(fr)) : extractedBytes[j] = fr[j]

C19_Witness ==
  /\ pc = "extract"
  /\ embedded.ok /\ flipped = -1 /\ imageData = embedded.output
  /\ seed = embedded.seed
  /\ isHeaderParsed
  /\ byteIdx = PREFIX_SIZE + 1
  /\ p > 0

\* C20: embed touches two bits. While embed runs and when it has returned,
\* the output buffer is as long as the input, every byte of an unusable
\* channel (alpha) equals the input byte, and every other byte equals the
\* input byte in bits 2..7.
C20_OnlyLowBits ==
  EmbedRunning
    => /\ Len(output) = Len(imageData)
       /\ \A o \in 0..(Len(imageData) - 1) :
            IF o % channels >= Min(channels, 3)
            THEN output[o + 1] = imageData[o + 1]
            ELSE output[o + 1] \div 4 = imageData[o + 1] \div 4

C20_Witness ==
  /\ pc = "embedDone"
  /\ channels = 4
  /\ frameByteIdx = Len(frame)
  /\ \E o \in 0..(Len(imageData) - 1) :
       output[o + 1] % 4 # imageData[o + 1] % 4

(* ------------------------------------------------------------------ *)
(* Images written by the earlier embed                                 *)
(* ------------------------------------------------------------------ *)
\* C15: backward compatibility. An extract call, with the same seed, on the
\* untouched buffer embedLegacy returned for a payload of 1..capacity bytes
\* returns that payload with integrityValid = true.
C15_LegacyDecodes ==
  (OnStego /\ seed = embedded.seed /\ Len(embedded.payload) >= 1)
    => /\ pc = "extractDone"
       /\ result.extractedData = embedded.payload
       /\ result.integrityValid

(* ------------------------------------------------------------------ *)
(* The stream-based embed                                              *)
(* ------------------------------------------------------------------ *)
StreamStarted == promise # "none"

\* C11: up-front capacity at 1 bit per usable channel. A streaming embed
\* whose frame needs more than w*h*min(c,3) bits is rejected before any
\* chunk is processed, and a streaming embed that resolves has moved the
\* cursor to byteIdx = frame.length.
C11_UpFrontCapacity ==
  /\ (StreamStarted /\ 8 * (Len(payload) + 12) > width * height * Min(channels, 3))
       => /\ promise = "rejected"
          /\ pipeline.chunks = <<>>
  /\ (StreamStarted /\ pc = "embedDone")
       => /\ stegoTransform.byteIdx = Len(frame)
          /\ stegoTransform.bitIdx = 0

\* C12: alpha bytes in streaming mode. With channels = 4, whatever the
\* chunk lengths, no byte at a stream offset congruent to 3 mod 4 receives
\* a frame bit or differs from the carrier's byte.
C12_AlphaUntouched ==
  (StreamStarted /\ channels = 4)
    => /\ \A w \in pipeline.layout : w[2] % 4 # 3
       /\ LET out == ConcatChunks(pipeline.pushed)
          IN  \A o \in 0..(Len(out) - 1) : o % 4 = 3 => out[o + 1] = imageData[o + 1]

\* C13: chunking independence. Whatever the chunk lengths, the chunks
\* pushed so far concatenate to a prefix of what one _transform call on
\* the whole stream pushes, and every input chunk has given exactly one
\* output chunk of its length, in order.
C13_ChunkingIndependence ==
  (StreamStarted /\ pc \in {"stream", "streamHalted", "embedDone"})
    => LET whole == TransformChunk([payload |-> frame, channels |-> channels,
                                    byteIdx |-> 0, bitIdx |-> 0], imageData).chunk
           out == ConcatChunks(pipeline.pushed)
       IN  /\ out = SubSeq(whole, 1, Len(out))
           /\ Len(pipeline.pushed) = Len(pipeline.chunks)
           /\ \A i \in 1..Len(pipeline.chunks) :
                Len(pipeline.pushed[i]) = Len(pipeline.chunks[i])
           /\ ConcatChunks(pipeline.chunks) \o pipeline.pending = imageData

\* C14: errors surface. Once a stage of the pipeline has emitted an error
\* the promise is rejected, and whenever the pipeline is no longer running
\* the promise is settled.
C14_ErrorsReject ==
  /\ pipeline.failed # "" => promise = "rejected"
  /\ (StreamStarted /\ pc # "stream") => promise \in {"resolved", "rejected"}

\* C16: the seed orders the pixels of the streaming embed. Two streaming
\* embeds of the same carrier and payload under seeds whose permutations
\* differ put their frame bits at different positions.
C16_SeedOrdersPixels ==
  (StreamStarted /\ pc = "embedDone" /\ first.ok /\ embeds >= 2
     /\ imageData = first.input /\ payload = first.payload
     /\ shuffleIndicesLegacy(SeedState(seed), width * height)
          # shuffleIndicesLegacy(SeedState(first.seed), width * height))
    => pipeline.layout # first.layout

(* ------------------------------------------------------------------ *)
(* The loops of the permuted mode                                      *)
(* ------------------------------------------------------------------ *)
\* C21: embed stops when the frame is written. With N the number of pixels
\* 8 * (len(payload) + 12) bits need at 2 bits per usable channel, every
\* pixel at position N or later of the pixel order has its input bytes, and
\* in the pixel at position N - 1 so has every channel after the one that
\* holds the last frame bit.
C21_StopsAtFrameEnd ==
  EmbedRunning
    => LET u == Min(channels, 3)
           bits == 8 * (Len(payload) + 12)
           N == (bits + 2 * u - 1) \div (2 * u)
           lastChannel == ((bits - 1) \div 2) % u
           Same(q, ch) == output[pixelOrder[q + 1] * channels + ch + 1]
                            = imageData[pixelOrder[q + 1] * channels + ch + 1]
       IN  /\ \A q \in N..(width * height - 1) : \A ch \in 0..(channels - 1) : Same(q, ch)
           /\ N <= width * height
                => \A ch \in (lastChannel + 1)..(channels - 1) : Same(N - 1, ch)

C21_Witness ==
  /\ pc = "embedDone"
  /\ width * height > (8 * (Len(payload) + 12) + 5) \div 6
  /\ ((8 * (Len(payload) + 12) - 1) \div 2) % Min(channels, 3) < channels - 1
  /\ output # imageData

C28_TargetReached ==
  ExtractRunning
    => /\ byteIdx <= calculateCapacity(width, height, channels) + 12
       /\ byteIdx <= Len(extractedBytes)
       /\ (isHeaderParsed /\ pc # "extract")
            => /\ byteIdx = targetSize
               /\ targetSize = WordLow(extractedLength) + 12
               /\ error.message # IncompleteFrame
       /\ error.message = IncompleteFrame
            => /\ TotalBytes < 8
               /\ ~isHeaderParsed

C28_Witness ==
  /\ pc = "extractFailed"
  /\ TotalBytes >= 8 /\ TotalBytes < 12
  /\ byteIdx = PREFIX_SIZE
  /\ error.message = LengthOutOfRange

\* C30: two bits per channel. At the start of every channel iteration of
\* embed frameBitIdx is even and frameByteIdx < frame.length; the iteration
\* does not leave through the break, moves the cursor by two bits and stores
\* the byte carrying both of them.
C30_TwoBitsPerChannel ==
  pc = "embed"
    => LET byteOffset == pixelOrder[p + 1] * channels + c
           r == EmbedChannel(output, frame, frameByteIdx, frameBitIdx, modified,
                             byteOffset)
           k == 8 * frameByteIdx + frameBitIdx
       IN  /\ frameBitIdx \in {0, 2, 4, 6}
           /\ frameByteIdx < Len(frame)
           /\ c < Min(channels, 3)
           /\ ~r.broke
           /\ 8 * r.frameByteIdx + r.frameBitIdx = k + 2
           /\ r.output[byteOffset + 1] % 4
                = BitOf(frame[(k \div 8) + 1], 7 - (k % 8))
                  + 2 * BitOf(frame[((k + 1) \div 8) + 1], 7 - ((k + 1) % 8))

C30_Witness ==
  /\ pc = "embed"
  /\ frameBitIdx = 6
  /\ frameByteIdx = Len(frame) - 1
  /\ c = 1

(* ------------------------------------------------------------------ *)
(* The StegoTransform cursor                                           *)
(* ------------------------------------------------------------------ *)
\* stream offset of the k-th byte that is not an alpha byte
StreamOffset(ch, k) == IF ch = 4 THEN (k \div 3) * 4 + (k % 3) ELSE k

\* byte j packed, MSB first, from bit 0 of the non-alpha bytes 8j..8j+7
ReadStreamByte(out, ch, j) ==
  LET b(t) == out[StreamOffset(ch, 8 * j + t) + 1] % 2
  IN  128 * b(0) + 64 * b(1) + 32 * b(2) + 16 * b(3)
      + 8 * b(4) + 4 * b(5) + 2 * b(6) + b(7)

PixelAligned == \A i \in 1..Len(pipeline.chunks) : Len(pipeline.chunks[i]) % channels = 0

\* C22: streaming bit placement. When a streaming embed whose chunks were
\* all pixel-aligned has resolved, every byte of the output has bits 1..7 of
\* the carrier's byte, the non-alpha bytes are enough for the frame, and
\* bit 0 of the non-alpha bytes, read in raster order and packed 8 to a byte
\* MSB first, gives the frame's bytes.
C22_StreamPlacement ==
  (StreamStarted /\ pc = "embedDone" /\ PixelAligned)
    => /\ Len(stego) = Len(imageData)
       /\ \A o \in 1..Len(stego) : stego[o] \div 2 = imageData[o] \div 2
       /\ 8 * Len(frame) <= width * height * Min(channels, 3)
       /\ \A j \in 0..(Len(frame) - 1) : ReadStreamByte(stego, channels, j) = frame[j + 1]

\* C23: the StegoTransform cursor. bitIdx stays in 0..7 and byteIdx in
\* 0..frame.length; no chunk moves (byteIdx, bitIdx) backwards; once byteIdx
\* is frame.length a chunk leaves the cursor where it is and is pushed as it
\* came in.
C23_CursorInvariant ==
  /\ [](StreamStarted
          => /\ stegoTransform.bitIdx \in 0..7
             /\ stegoTransform.byteIdx \in 0..Len(stegoTransform.payload))
  /\ [][pc = "stream"
          => /\ 8 * stegoTransform'.byteIdx + stegoTransform'.bitIdx
                  >= 8 * stegoTransform.byteIdx + stegoTransform.bitIdx
             /\ stegoTransform.byteIdx = Len(frame)
                  => /\ stegoTransform' = stegoTransform
                     /\ pipeline'.layout = pipeline.layout
                     /\ ConcatChunks(pipeline'.pushed)
                          = ConcatChunks(pipeline.pushed)
                              \o SubSeq(pipeline.pending, 1,
                                        Len(pipeline.pending) - Len(pipeline'.pending))]_vars

C23_Witness ==
  /\ pc = "embedDone"
  /\ StreamStarted
  /\ Len(pipeline.chunks) = 3
  /\ stegoTransform.byteIdx = Len(frame)
  /\ \A w \in pipeline.layout : w[2] < Len(pipeline.chunks[1]) + Len(pipeline.chunks[2])
  /\ pipeline.pushed[3] = pipeline.chunks[3]

(* ------------------------------------------------------------------ *)
(* crc32 and the SeededPRNG                                            *)
(* ------------------------------------------------------------------ *)
\* C24: crc32(bytes) is the reflected CRC-32 (polynomial 0xEDB88320, initial
\* value 0xFFFFFFFF, final XOR 0xFFFFFFFF) computed bit by bit; its four
\* bytes are in 0..255, so it is an unsigned value below 2^32; crc32 of the
\* empty sequence is 0, crc32 of 'a' is 0xE8B7BE43; all of this both when
\* the call builds the table and when it finds the table built.
C24_Crc32Reference ==
  pc = "crcDone"
    => /\ result.value = ReferenceCrc32(payload)
       /\ Len(result.value) = 4
       /\ \A i \in 1..4 : result.value[i] \in 0..255
       /\ payload = <<>> => result.value = <<0, 0, 0, 0>>
       /\ payload = <<97>> => result.value = <<232, 183, 190, 67>>

C24_Witness ==
  /\ pc = "crcDone"
  /\ result.cached
  /\ Len(payload) = MaxCrcLen
  /\ result.value = ReferenceCrc32(payload)
  /\ result.value # <<0, 0, 0, 0>>

\* the step of the generator on 16-bit halves: 1664525 = 25 * 2^16 + 26125,
\* 1013904223 = 15470 * 2^16 + 62303
ReferenceLcg(state) ==
  LET H == state[1] * 256 + state[2]
      L == state[3] * 256 + state[4]
      t == L * 26125
      lo == (t % 65536) + 62303
      hi == ((t \div 65536) + L * 25 + H * 26125 + 15470 + (lo \div 65536)) % 65536
  IN  <<hi \div 256, hi % 256, (lo % 65536) \div 256, lo % 256>>

\* C25: SeededPRNG.next(). Every call of next() sets the state to
\* (state * 1664525 + 1013904223) mod 2^32 and returns that state (from 0
\* that is 1013904223, from 2^32 - 1 it is 1012239698); the four bytes of the
\* value are in 0..255, so it is an integer in [0, 2^32).
C25_NextIsLcg ==
  (pc \in {"shuffle", "shuffleDone"} /\ prng.calls > 0)
    => /\ prng.state = ReferenceLcg(prng.before)
       /\ prng.returned = prng.state
       /\ prng.before = <<0, 0, 0, 0>> => prng.returned = <<60, 110, 243, 95>>
       /\ prng.before = <<255, 255, 255, 255>> => prng.returned = <<60, 85, 141, 82>>
       /\ Len(prng.returned) = 4
       /\ \A k \in 1..4 : prng.returned[k] \in 0..255

C25_Witness ==
  /\ pc = "shuffle"
  /\ prng.calls > 0
  /\ prng.before[1] >= 128
  /\ prng.state[1] >= 128
  /\ prng.state = ReferenceLcg(prng.before)

\* C26: shuffleIndices(n). At every iteration indices holds each of 0..n-1
\* exactly once and the exchange index j of the iteration at i is in 0..i;
\* the array returned has length n, and max(0, n - 1) calls of next() have
\* been made when it returns.
C26_ShuffleBijection ==
  /\ pc \in {"shuffle", "shuffleDone"}
       => /\ Len(prng.indices) = prng.length
          /\ \A v \in 0..(prng.length - 1) :
                Cardinality({k \in 1..prng.length : prng.indices[k] = v}) = 1
          /\ prng.calls > 0 => prng.j \in 0..(prng.i + 1)
          /\ prng.calls = (prng.length - 1) - Max(prng.i, IF prng.length = 0 THEN -1 ELSE 0)
  /\ pc = "shuffleDone"
       => /\ result.indices = prng.indices
          /\ Len(result.indices) = prng.length
          /\ prng.calls = Max(0, prng.length - 1)
          /\ result.indices = shuffleIndices(prng.constructed, prng.length)

C26_Witness ==
  /\ pc = "shuffleDone"
  /\ prng.length = MaxShuffle
  /\ prng.calls = MaxShuffle - 1
  /\ result.indices # [k \in 1..MaxShuffle |-> k - 1]
  /\ \A v \in 0..(MaxShuffle - 1) : \E k \in 1..MaxShuffle : result.indices[k] = v

(* ------------------------------------------------------------------ *)
(* The file lifecycle                                                  *)
(* ------------------------------------------------------------------ *)
\* C29: the file lifecycle is one-way. A row that an update of hideFile,
\* revokeFile or cryptoShredFile has been applied to never has status ACTIVE
\* again, whatever calls follow, and a recoverFile for it that starts
\* afterwards returns success = false from its status check at the latest:
\* it never reaches extract or decrypt.
C29_LifecycleOneWay ==
  /\ \A id \in retired : metadata[id].status \in {"REVOKED", "EXPIRED"}
  /\ recovery.afterRetire
       => /\ recovery.stage = "returned"
          /\ ~recovery.success
          /\ ~recovery.extracted
          /\ ~recovery.decrypted

C29_Witness ==
  /\ recovery.stage = "returned"
  /\ recovery.afterRetire
  /\ recovery.metadataId \in retired
  /\ metadata[recovery.metadataId].owner = recovery.user
  /\ metadata[recovery.metadataId].status = "REVOKED"
  /\ metadata[recovery.metadataId].encrypted_key = "SHREDDED"
  /\ recovery.error = "This file has been revoked or shredded and cannot be recovered"
  /\ ~recovery.success

====
